---- MODULE Spec2Model ----
(***************************************************************************)
(* Model of the rush shell front-end (villaleo/rush).                      *)
(*                                                                         *)
(* Part 1: the line tokenizer, src/src/util.rs.                            *)
(*   Tokenizer::from     reads one line from a reader and trims it.        *)
(*   Tokenizer::tokenize runs the character loop over the trimmed line,    *)
(*                       flushes the rest of buf and collects the strings. *)
(*                                                                         *)
(* A string is a sequence of one-character strings.  The reader's line is  *)
(* modelled without its terminating newline, which read_line keeps and     *)
(* trim() removes again.  All characters of Alphabet are ASCII, so the     *)
(* char index of the loop and the byte length input.len() agree.           *)
(*                                                                         *)
(* Part 2: classification and dispatch, src/src/command/mod.rs and         *)
(* src/src/command/path.rs.                                                *)
(*   Command::new  tokenizes one line, maps token 0 to a CommandType and   *)
(*                 resolves a non-builtin name on PATH.                    *)
(*   Command::run  selects the handler of the command's kind.              *)
(*                                                                         *)
(* Part 3: the external executor,                                          *)
(* src/src/command/handlers/executable.rs: the main thread of              *)
(* handle_executable, the two relay threads, the child process and the two *)
(* pipes between them.                                                     *)
(***************************************************************************)
EXTENDS Integers, Sequences, FiniteSets, TLC

\* ------------------------------------------------------------------ bounds
MaxLen == 7       \* longest line the reader delivers
MaxCalls == 2     \* calls of tokenize on one Tokenizer

\* ------------------------------------------------------------- characters
SQ == "'"
DQ == "\""
SP == " "
Alphabet == {"a", "b", SP, SQ, DQ}
\* the characters str::trim strips; the space is the only one in Alphabet
Whitespace == {SP}

Lines == UNION {[1..n -> Alphabet] : n \in 0..MaxLen}

VARIABLES
    reader,   \* what the BufRead handed to Tokenizer::from will deliver
    pc,       \* "new": no Tokenizer yet; "ready": constructed;
              \* "done": tokenize returned; "failed": from returned Err
    input,    \* Tokenizer.input
    tokens,   \* Tokenizer.tokens, a sequence of TokenKind
    result,   \* what the last call returned
    calls,    \* number of tokenize calls made on this Tokenizer
    path_env, \* the environment variable PATH: unset, or its text
    fs,       \* the file system: the paths that exist, and their x bits
    command,  \* what Command::new returned, NotCalled before the call
    arm,      \* the match arm Command::run selected, "none" before run
    hpc,      \* position of the main thread in handle_executable
    hres,     \* what handle_executable returned
    child,    \* the child process: its state, the writes it has left to
              \* do and its way of terminating
    pipe,     \* the stdout and stderr pipes between child and relays
    relay,    \* the two relay threads
    sink,     \* whether the shell's own stdout / stderr accept writes
    copied,   \* chunks the relays have written to the shell's streams
    cwd,      \* the working directory of the process, an absolute path
    home,     \* what env::home_dir() returns: None, or a path
    out,      \* the lines the last builtin handler wrote to stdout
    rres      \* what the last builtin handler returned, NoRun before

tokvars == <<reader, pc, input, tokens, result, calls>>
cmdvars == <<path_env, fs, command, arm>>
execvars == <<hpc, hres, child, pipe, relay, sink, copied>>
shvars == <<cwd, home, out, rres>>
vars == <<tokvars, cmdvars, execvars, shvars>>

\* --------------------------------------------------------------- TokenKind
Literal(s) == [kind |-> "Literal", text |-> s]
Quoted(s) == [kind |-> "Quoted", text |-> s]
Space == [kind |-> "Space", text |-> <<>>]

\* ------------------------------------------------------------- str helpers
RECURSIVE TrimStart(_)
TrimStart(s) ==
    IF s # <<>> /\ Head(s) \in Whitespace THEN TrimStart(Tail(s)) ELSE s

RECURSIVE TrimEnd(_)
TrimEnd(s) ==
    IF s # <<>> /\ s[Len(s)] \in Whitespace
    THEN TrimEnd(SubSeq(s, 1, Len(s) - 1))
    ELSE s

\* str::trim
Trim(s) == TrimEnd(TrimStart(s))

\* Vec::last as an Option: the kind of the last token, "None" if there is none
LastKind(toks) == IF toks = <<>> THEN "None" ELSE toks[Len(toks)].kind

\* Vec::pop
Pop(toks) == SubSeq(toks, 1, Len(toks) - 1)

\* last_token.push_str(s), keeping the variant of the last token
PushStrLast(toks, s) ==
    [toks EXCEPT ![Len(toks)].text = @ \o s]

\* ------------------------------------------------------------- loop state
\* the locals of tokenize plus self.tokens; failed is the early return of
\* Err(UnterminatedQuote)
LoopInit(toks) ==
    [buf |-> <<>>, quote_count |-> 0, has_seen_literal |-> FALSE,
     tokens |-> toks, failed |-> FALSE]

\* the quote arm keeping a quoted span that is empty or blank
QuoteArmKeepBlank(st) ==
    LET qc == st.quote_count + 1 IN
    IF qc = 1 THEN
        IF Trim(st.buf) # <<>>
        THEN [st EXCEPT !.quote_count = qc,
                        !.has_seen_literal = TRUE,
                        !.tokens = Append(@, Literal(Trim(st.buf))),
                        !.buf = <<>>]
        ELSE [st EXCEPT !.quote_count = qc, !.buf = <<>>]
    ELSE IF qc = 2 THEN
        IF LastKind(st.tokens) # "Space"
        THEN IF LastKind(st.tokens) = "Quoted"
             THEN [st EXCEPT !.tokens = PushStrLast(@, st.buf),
                             !.buf = <<>>, !.quote_count = 0]
             ELSE IF LastKind(st.tokens) = "Literal"
             THEN [st EXCEPT
                     !.tokens = Append(Pop(@),
                                  Quoted(@[Len(@)].text \o st.buf)),
                     !.buf = <<>>, !.quote_count = 0]
             ELSE [st EXCEPT !.tokens = Append(@, Quoted(st.buf)),
                             !.buf = <<>>, !.quote_count = 0]
        ELSE [st EXCEPT !.tokens = Append(Pop(@), Quoted(st.buf)),
                        !.buf = <<>>, !.quote_count = 0]
    ELSE [st EXCEPT !.quote_count = qc]

\* match arm '\''
QuoteArm(st) ==
    LET qc == st.quote_count + 1 IN
    IF qc = 1 THEN
        IF Trim(st.buf) # <<>>
        THEN [st EXCEPT !.quote_count = qc,
                        !.has_seen_literal = TRUE,
                        !.tokens = Append(@, Literal(Trim(st.buf))),
                        !.buf = <<>>]
        ELSE [st EXCEPT !.quote_count = qc, !.buf = <<>>]
    ELSE IF qc = 2 THEN
        IF Len(Trim(st.buf)) = 0
        THEN [st EXCEPT !.buf = <<>>, !.quote_count = 0]
        ELSE IF LastKind(st.tokens) # "Space"
        THEN IF LastKind(st.tokens) = "Quoted"
             THEN [st EXCEPT !.tokens = PushStrLast(@, st.buf),
                             !.buf = <<>>, !.quote_count = 0]
             ELSE IF LastKind(st.tokens) = "Literal"
             THEN [st EXCEPT
                     !.tokens = Append(Pop(@),
                                  Quoted(@[Len(@)].text \o st.buf)),
                     !.buf = <<>>, !.quote_count = 0]
             ELSE [st EXCEPT !.tokens = Append(@, Quoted(st.buf)),
                             !.buf = <<>>, !.quote_count = 0]
        ELSE [st EXCEPT !.tokens = Append(Pop(@), Quoted(st.buf)),
                        !.buf = <<>>, !.quote_count = 0]
    ELSE [st EXCEPT !.quote_count = qc]

\* SpaceArm without the Space hint after a Literal pushed at a space
SpaceArmNoHint(st) ==
    IF st.quote_count = 0 THEN
        IF Trim(st.buf) = <<>> THEN
            IF LastKind(st.tokens) = "Literal"
            THEN [st EXCEPT !.buf = <<>>, !.tokens = Append(@, Space)]
            ELSE IF st.has_seen_literal /\ LastKind(st.tokens) = "Quoted"
            THEN [st EXCEPT !.buf = <<>>, !.tokens = Append(@, Space)]
            ELSE [st EXCEPT !.buf = <<>>]
        ELSE [st EXCEPT !.has_seen_literal = TRUE,
                        !.tokens = Append(@, Literal(Trim(st.buf))),
                        !.buf = <<>>]
    ELSE [st EXCEPT !.buf = Append(@, SP)]

\* match arm ' '
SpaceArm(st) ==
    IF st.quote_count = 0 THEN
        IF Trim(st.buf) = <<>> THEN
            IF LastKind(st.tokens) = "Literal"
            THEN [st EXCEPT !.buf = <<>>, !.tokens = Append(@, Space)]
            ELSE IF st.has_seen_literal /\ LastKind(st.tokens) = "Quoted"
            THEN [st EXCEPT !.buf = <<>>, !.tokens = Append(@, Space)]
            ELSE [st EXCEPT !.buf = <<>>]
        ELSE [st EXCEPT !.has_seen_literal = TRUE,
                        !.tokens = Append(Append(@, Literal(Trim(st.buf))),
                                          Space),
                        !.buf = <<>>]
    ELSE [st EXCEPT !.buf = Append(@, SP)]

\* the char arm failing at the last character after an even quote count
CharArmEven(st, ch, i, len) ==
    IF i = len - 1 /\ st.quote_count % 2 = 0
    THEN [st EXCEPT !.failed = TRUE]
    ELSE [st EXCEPT !.buf = Append(@, ch)]

\* match arm char => ; i is the 0-based index, len is self.input.len()
CharArm(st, ch, i, len) ==
    IF i = len - 1 /\ st.quote_count % 2 = 1
    THEN [st EXCEPT !.failed = TRUE]
    ELSE [st EXCEPT !.buf = Append(@, ch)]

\* one iteration of the for loop
Step(st, ch, i, len) ==
    IF ch = SQ THEN QuoteArm(st)
    ELSE IF ch = SP THEN SpaceArm(st)
    ELSE CharArm(st, ch, i, len)

\* the for loop from 0-based index i on, stopping at the early return
RECURSIVE Loop(_, _, _)
Loop(st, inp, i) ==
    IF st.failed \/ i >= Len(inp) THEN st
    ELSE Loop(Step(st, inp[i + 1], i, Len(inp)), inp, i + 1)

\* Flush without the buf.len() > 0 guard
FlushAlways(st) ==
    IF LastKind(st.tokens) \in {"Literal", "Quoted"}
    THEN [st EXCEPT !.tokens = PushStrLast(@, Trim(st.buf))]
    ELSE [st EXCEPT !.tokens = Append(@, Literal(Trim(st.buf)))]

\* the flush putting the remaining chars in front of the last token
FlushPrepend(st) ==
    IF Len(st.buf) > 0 THEN
        IF LastKind(st.tokens) \in {"Literal", "Quoted"}
        THEN [st EXCEPT !.tokens[Len(st.tokens)].text = Trim(st.buf) \o @]
        ELSE [st EXCEPT !.tokens = Append(@, Literal(Trim(st.buf)))]
    ELSE st

\* "Push remaining chars into self.tokens"
Flush(st) ==
    IF Len(st.buf) > 0 THEN
        IF LastKind(st.tokens) \in {"Literal", "Quoted"}
        THEN [st EXCEPT !.tokens = PushStrLast(@, Trim(st.buf))]
        ELSE [st EXCEPT !.tokens = Append(@, Literal(Trim(st.buf)))]
    ELSE st

\* the final loop that drops the Space hints
RECURSIVE Collect(_)
Collect(toks) ==
    IF toks = <<>> THEN <<>>
    ELSE IF Head(toks).kind = "Space" THEN Collect(Tail(toks))
    ELSE <<Head(toks).text>> \o Collect(Tail(toks))

\* RushError values and the Result of a call
UnexpectedEOF == [ok |-> FALSE, err |-> "UnexpectedEOF", tokens |-> <<>>]
UnterminatedQuote == [ok |-> FALSE, err |-> "UnterminatedQuote", tokens |-> <<>>]
Ok(v) == [ok |-> TRUE, err |-> "", tokens |-> v]
NoResult == [ok |-> FALSE, err |-> "none", tokens |-> <<>>]

\* Tokenizer::tokenize as a function of self.tokens and self.input:
\* the state the call leaves in self.tokens and the value it returns
TokenizeRun(toks, inp) ==
    LET looped == Loop(LoopInit(toks), inp, 0) IN
    IF looped.failed
    THEN [tokens |-> looped.tokens, ret |-> UnterminatedQuote]
    ELSE LET flushed == Flush(looped) IN
         [tokens |-> flushed.tokens, ret |-> Ok(Collect(flushed.tokens))]

\* ------------------------------------------------------------------ reader
LineReader(s) == [kind |-> "line", text |-> s]
EofReader == [kind |-> "eof", text |-> <<>>]
ErrReader == [kind |-> "err", text |-> <<>>]
Readers == {LineReader(s) : s \in Lines} \cup {EofReader, ErrReader}

\* the state of the parts that take no step in a specification
NoTokenizer ==
    /\ pc = "new"
    /\ input = <<>>
    /\ tokens = <<>>
    /\ result = NoResult
    /\ calls = 0

NotCalled == [ok |-> FALSE, err |-> "none", name |-> <<>>,
              type_ |-> [kind |-> "none", path |-> <<>>, name |-> <<>>],
              args |-> <<>>]

CmdIdle ==
    /\ path_env = [set |-> FALSE, text |-> <<>>]
    /\ fs = [exec |-> {}, plain |-> {}]
    /\ command = NotCalled
    /\ arm = "none"

Streams == {"out", "err"}

\* Option<i32>
Status(n) == [some |-> TRUE, val |-> n]
NoStatus == [some |-> FALSE, val |-> 0]

\* raw_os_error() of the io::Errors the handlers meet
ENOENT == 2
EACCES == 13
ECHILD == 10
EPIPE == 32
ENOTDIR == 20

\* a message text and the number formatted into it, if any
Msg(t, n) == [text |-> t, num |-> n]

\* no CommandType
NoType == [kind |-> "none", path |-> <<>>, name |-> <<>>]

\* what handle_executable returned; NoReturn before it returns
NoReturn == [ok |-> FALSE, err |-> "none", type_ |-> NoType,
             code |-> NoStatus, msg |-> Msg("", NoStatus),
             status |-> NoStatus]

NoChild == [state |-> "none", prog |-> <<>>, exit |-> NoStatus,
            program |-> <<>>, file |-> <<>>, argv |-> <<>>,
            wrote |-> [s \in Streams |-> 0]]

ClosedPipe == [buf |-> 0, wopen |-> FALSE, ropen |-> FALSE]

ExecIdle ==
    /\ hpc = "idle"
    /\ hres = NoReturn
    /\ child = NoChild
    /\ pipe = [s \in Streams |-> ClosedPipe]
    /\ relay = [s \in Streams |-> "none"]
    /\ sink = [s \in Streams |-> TRUE]
    /\ copied = [s \in Streams |-> 0]

\* Option<String>
Some(v) == [some |-> TRUE, val |-> v]
None == [some |-> FALSE, val |-> <<>>]

SLASH == "/"
ROOT == <<SLASH>>
HOME_DIR == <<SLASH, "h">>

\* no builtin handler has returned yet
NoRun == [ok |-> FALSE, err |-> "none", type_ |-> NoType, msg |-> <<>>,
          status |-> NoStatus, lookups |-> <<>>]

\* the state of the shell before any command has run
ShIdle ==
    /\ cwd = ROOT
    /\ home = Some(HOME_DIR)
    /\ out = <<>>
    /\ rres = NoRun

\* ----------------------------------------------------------------- actions
Init ==
    /\ reader \in Readers
    /\ pc = "new"
    /\ input = <<>>
    /\ tokens = <<>>
    /\ result = NoResult
    /\ calls = 0
    /\ CmdIdle
    /\ ExecIdle
    /\ ShIdle

\* Tokenizer::from: read_line, then trim; a read error maps to UnexpectedEOF,
\* end of stream is Ok(0) and leaves the line empty
From ==
    /\ pc = "new"
    /\ IF reader.kind = "err"
       THEN /\ pc' = "failed"
            /\ result' = UnexpectedEOF
            /\ UNCHANGED input
       ELSE /\ pc' = "ready"
            /\ input' = Trim(reader.text)
            /\ UNCHANGED result
    /\ UNCHANGED <<reader, tokens, calls>>
    /\ UNCHANGED <<cmdvars, execvars, shvars>>

\* Tokenizer::tokenize(&mut self)
Tokenize ==
    /\ pc \in {"ready", "done"}
    /\ calls < MaxCalls
    /\ LET run == TokenizeRun(tokens, input) IN
        /\ tokens' = run.tokens
        /\ result' = run.ret
    /\ pc' = "done"
    /\ calls' = calls + 1
    /\ UNCHANGED <<reader, input>>
    /\ UNCHANGED <<cmdvars, execvars, shvars>>

Next == From \/ Tokenize

Spec == Init /\ [][Next]_vars

(***************************************************************************)
(* Part 2: Command::new and Command::run                                   *)
(***************************************************************************)
MaxArgs == 1      \* argument words after the command name on a line

\* ------------------------------------------------------------------- names
CD == <<"c", "d">>
ECHO == <<"e", "c", "h", "o">>
EXIT == <<"e", "x", "i", "t">>
PWD == <<"p", "w", "d">>
TYPE == <<"t", "y", "p", "e">>
BuiltinNames == {CD, ECHO, EXIT, PWD, TYPE}
BuiltinKinds == {"Cd", "Echo", "Exit", "Pwd", "Type"}

\* ------------------------------------------------------------- CommandType
Builtin(k) == [kind |-> k, path |-> <<>>, name |-> <<>>]
Executable(p, n) == [kind |-> "Executable", path |-> p, name |-> n]
Unknown(n) == [kind |-> "Unknown", path |-> <<>>, name |-> n]

\* CommandType::from_str without the trim
from_str_untrimmed(s) ==
    IF s = CD THEN Builtin("Cd")
    ELSE IF s = EXIT THEN Builtin("Exit")
    ELSE IF s = ECHO THEN Builtin("Echo")
    ELSE IF s = PWD THEN Builtin("Pwd")
    ELSE IF s = TYPE THEN Builtin("Type")
    ELSE Unknown(s)

\* CommandType::from_str
from_str(s) ==
    LET t == Trim(s) IN
    IF t = CD THEN Builtin("Cd")
    ELSE IF t = EXIT THEN Builtin("Exit")
    ELSE IF t = ECHO THEN Builtin("Echo")
    ELSE IF t = PWD THEN Builtin("Pwd")
    ELSE IF t = TYPE THEN Builtin("Type")
    ELSE Unknown(t)

\* path::is_builtin
is_builtin(cmd_name) == from_str(cmd_name).kind \in BuiltinKinds

\* ------------------------------------------------------------ path lookup
COLON == ":"

\* env::split_paths on unix: the stretches between the separators, the
\* empty ones included; the empty text gives one empty path
RECURSIVE split_paths(_)
split_paths(text) ==
    IF \E i \in 1..Len(text) : text[i] = COLON
    THEN LET i == CHOOSE k \in 1..Len(text) :
                    /\ text[k] = COLON
                    /\ \A m \in 1..(k - 1) : text[m] # COLON
         IN <<SubSeq(text, 1, i - 1)>>
                \o split_paths(SubSeq(text, i + 1, Len(text)))
    ELSE <<text>>

\* Path::join: an absolute name replaces the directory; a separator is
\* put in only after a non-empty directory that does not end in one
join(dir, name) ==
    IF name # <<>> /\ Head(name) = SLASH THEN name
    ELSE IF dir = <<>> \/ dir[Len(dir)] = SLASH THEN dir \o name
    ELSE dir \o <<SLASH>> \o name

\* Path::exists
exists(files, p) == p \in files.exec \cup files.plain

\* path::is_executable (unix): some x bit is set in the mode
is_executable(files, p) == p \in files.exec


\* the for loop of find_in_path, taking the last match instead of the first
RECURSIVE search_last(_, _, _)
search_last(dirs, cmd_name, files) ==
    IF dirs = <<>> THEN None
    ELSE LET full_path == join(dirs[Len(dirs)], cmd_name) IN
         IF exists(files, full_path) /\ is_executable(files, full_path)
         THEN Some(full_path)
         ELSE search_last(SubSeq(dirs, 1, Len(dirs) - 1), cmd_name, files)

\* the for loop of find_in_path over the directories of PATH
RECURSIVE search(_, _, _)
search(dirs, cmd_name, files) ==
    IF dirs = <<>> THEN None
    ELSE LET full_path == join(Head(dirs), cmd_name) IN
         IF exists(files, full_path) /\ is_executable(files, full_path)
         THEN Some(full_path)
         ELSE search(Tail(dirs), cmd_name, files)

\* path::find_in_path; it has no failing path, so the Option stands for
\* its Ok value
find_in_path(penv, files, cmd_name) ==
    IF ~penv.set THEN None
    ELSE search(split_paths(penv.text), cmd_name, files)

\* -------------------------------------------------------------- RushError
\* Display of the errors Command::new returns, as a sequence of text pieces
Display(e) ==
    IF e.err = "Nop" THEN <<>>
    ELSE IF e.err = "CommandNotFound"
         THEN e.name \o <<": command not found">>
    ELSE IF e.err = "UnexpectedEOF"
         THEN <<"error reading input: unexpected EOF">>
    ELSE IF e.err = "UnterminatedQuote"
         THEN <<"error: unterminated quote">>
    ELSE <<>>

CmdErr(e, n) == [ok |-> FALSE, err |-> e, name |-> n,
                 type_ |-> NoType, args |-> <<>>]
CmdOk(t, a) == [ok |-> TRUE, err |-> "", name |-> <<>>,
                type_ |-> t, args |-> a]

\* util::tokenize(reader): build a Tokenizer from the reader and run it
tokenize(rd) ==
    IF rd.kind = "err" THEN UnexpectedEOF
    ELSE TokenizeRun(<<>>, Trim(rd.text)).ret

\* the match on type_ of Command::new with the Unknown arm handing the
\* command on instead of resolving it
classify_unresolved(type_, args, penv, files) == CmdOk(type_, args)

\* the match on type_ of Command::new building a Command of kind Unknown
\* for a name that PATH does not resolve
classify_keep_unknown(type_, args, penv, files) ==
    IF type_.kind = "Unknown"
    THEN LET found == find_in_path(penv, files, type_.name) IN
         IF found.some
         THEN CmdOk(Executable(found.val, type_.name), args)
         ELSE CmdOk(type_, args)
    ELSE CmdOk(type_, args)

\* the match on type_ of Command::new resolving every name on PATH first
classify_path_first(type_, args, penv, files) ==
    LET found == find_in_path(penv, files, Trim(args[1])) IN
    IF found.some
    THEN CmdOk(Executable(found.val, Trim(args[1])), args)
    ELSE IF type_.kind = "Unknown"
    THEN CmdErr("CommandNotFound", type_.name)
    ELSE CmdOk(type_, args)

\* the match on type_ of Command::new
classify(type_, args, penv, files) ==
    IF type_.kind = "Unknown"
    THEN LET found == find_in_path(penv, files, type_.name) IN
         IF found.some
         THEN CmdOk(Executable(found.val, type_.name), args)
         ELSE CmdErr("CommandNotFound", type_.name)
    ELSE CmdOk(type_, args)

\* Command::new without the Nop return: the first token defaults to empty
new_without_nop(rd, penv, files) ==
    LET args == tokenize(rd) IN
    IF ~args.ok THEN CmdErr(args.err, <<>>)
    ELSE classify(from_str(IF args.tokens = <<>> THEN <<>>
                           ELSE args.tokens[1]),
                  args.tokens, penv, files)

\* Command::new taking a tokenizer failure for an empty line
new_failure_as_nop(rd, penv, files) ==
    LET args == tokenize(rd) IN
    IF ~args.ok THEN CmdErr("Nop", <<>>)
    ELSE IF args.tokens = <<>> THEN CmdErr("Nop", <<>>)
    ELSE classify(from_str(args.tokens[1]), args.tokens, penv, files)

\* Command::new
new(rd, penv, files) ==
    LET args == tokenize(rd) IN
    IF ~args.ok THEN CmdErr(args.err, <<>>)
    ELSE IF args.tokens = <<>> THEN CmdErr("Nop", <<>>)
    ELSE classify(from_str(args.tokens[1]), args.tokens, penv, files)

\* the arm the match of Command::run selects
run_arm(type_) == type_.kind

\* ------------------------------------------------------------------ inputs
LS == <<"l", "s">>
ZZ == <<"z", "z">>
ECHO_UPPER == <<"E", "c", "h", "o">>
DIR1 == <<SLASH, "d">>
DIR2 == <<SLASH, "e">>
ABS_LS == DIR1 \o <<SLASH>> \o LS
Q_ECHO == <<SQ, SP>> \o ECHO \o <<SP, SQ>>
Q_LS == <<SQ, SP>> \o LS \o <<SQ>>

NameWords ==
    BuiltinNames \cup {LS, ZZ, ECHO_UPPER, ABS_LS, Q_ECHO, Q_LS}
ArgWords == {LS, ECHO, <<"a">>}
Pads == {<<>>, <<SP, SP>>}

RECURSIVE SpacedArgs(_)
SpacedArgs(ws) ==
    IF ws = <<>> THEN <<>> ELSE <<SP>> \o Head(ws) \o SpacedArgs(Tail(ws))

ArgLists == UNION {[1..n -> ArgWords] : n \in 0..MaxArgs}

CmdLines ==
    {lead \o w \o SpacedArgs(ws) \o trail :
        lead \in Pads, w \in NameWords, ws \in ArgLists, trail \in Pads}
    \cup {<<>>, <<SP, SP>>, <<SQ, SQ>>, <<SQ>> \o LS}

CmdReaders == {LineReader(s) : s \in CmdLines} \cup {EofReader, ErrReader}

PathTexts ==
    {<<>>, DIR1, DIR2,
     DIR1 \o <<COLON>> \o DIR2, DIR2 \o <<COLON>> \o DIR1,
     DIR1 \o <<SLASH, COLON>> \o DIR2, <<COLON>> \o DIR2}
PathEnvs ==
    {[set |-> FALSE, text |-> <<>>]}
    \cup {[set |-> TRUE, text |-> t] : t \in PathTexts}

\* the entries the lines can name; LS alone is ls in the working directory
Entries == {join(DIR1, LS), join(DIR2, LS), join(DIR2, ECHO), LS}
FileSystems ==
    UNION {{[exec |-> e, plain |-> p] : p \in SUBSET (Entries \ e)} :
              e \in SUBSET Entries}


(***************************************************************************)
(* Part 4: the builtin handlers and Command::run                           *)
(*                                                                         *)
(* What a handler prints is the sequence of the pieces println! writes:    *)
(* the characters of the strings formatted in, the fixed texts of the      *)
(* format string, and the newline.  A handler's return value is a record   *)
(* RunOk or RunErr; its field lookups lists, in order, the collaborators   *)
(* the handler consulted.                                                  *)
(***************************************************************************)
NL == "\n"
TILDE == <<"~">>
DOT == <<".">>
DOTDOT == <<".", ".">>

RunOk == [ok |-> TRUE, err |-> "", type_ |-> NoType, msg |-> <<>>,
          status |-> NoStatus, lookups |-> <<>>]
\* RushError::CommandError { type_, msg, status }
RunErr(t, m, st) == [ok |-> FALSE, err |-> "CommandError", type_ |-> t,
                     msg |-> m, status |-> st, lookups |-> <<>>]

\* Display of CommandType
DisplayType(t) ==
    CASE t.kind = "Cd" -> CD
      [] t.kind = "Echo" -> ECHO
      [] t.kind = "Exit" -> EXIT
      [] t.kind = "Pwd" -> PWD
      [] t.kind = "Type" -> TYPE
      [] OTHER -> t.name

\* Display of RushError::CommandError: "{type_}: {msg}"
DisplayError(e) == DisplayType(e.type_) \o <<":", SP>> \o e.msg

\* ------------------------------------------------------ the directory tree
SUB == <<"s">>
NX == <<SLASH, "n">>
FILE_F == <<SLASH, "f">>
Directories == {ROOT, HOME_DIR, DIR1, DIR1 \o <<SLASH>> \o SUB}
\* the working directory of a process whose directory has been removed
GONE == <<>>
PlainFiles == {FILE_F}

\* the names between the slashes of a path
RECURSIVE path_components(_, _)
path_components(p, cur) ==
    LET done == IF cur = <<>> THEN <<>> ELSE <<cur>> IN
    IF p = <<>> THEN done
    ELSE IF Head(p) = SLASH THEN done \o path_components(Tail(p), <<>>)
    ELSE path_components(Tail(p), Append(cur, Head(p)))

RECURSIVE absolute(_)
absolute(comps) ==
    IF comps = <<>> THEN <<>>
    ELSE <<SLASH>> \o Head(comps) \o absolute(Tail(comps))

parent(d) ==
    LET comps == path_components(d, <<>>) IN
    IF Len(comps) <= 1 THEN ROOT
    ELSE absolute(SubSeq(comps, 1, Len(comps) - 1))

entry(d, c) == IF d = ROOT THEN ROOT \o c ELSE d \o <<SLASH>> \o c

\* chdir(2) walking the components from directory cur
RECURSIVE walk(_, _)
walk(cur, comps) ==
    IF comps = <<>> THEN [ok |-> TRUE, dir |-> cur, errno |-> 0]
    ELSE LET c == Head(comps)
             nxt == IF c = DOT THEN cur
                    ELSE IF c = DOTDOT THEN parent(cur)
                    ELSE entry(cur, c)
         IN IF nxt \in Directories THEN walk(nxt, Tail(comps))
            ELSE IF nxt \in PlainFiles
                 THEN [ok |-> FALSE, dir |-> cur, errno |-> ENOTDIR]
            ELSE [ok |-> FALSE, dir |-> cur, errno |-> ENOENT]

\* env::set_current_dir(target) in working directory wd
set_current_dir(wd, target) ==
    IF target = <<>> \/ (wd = GONE /\ Head(target) # SLASH)
    THEN [ok |-> FALSE, dir |-> wd, errno |-> ENOENT]
    ELSE walk(IF Head(target) = SLASH THEN ROOT ELSE wd,
              path_components(target, <<>>))

\* io::Error::to_string() of an OS error
OsErrorText(errno) ==
    IF errno = ENOENT THEN <<"No such file or directory (os error 2)">>
    ELSE <<"Not a directory (os error 20)">>

\* ---------------------------------------------------------------------- cd
\* cd_home_dir
cd_home_dir(wd, hm) ==
    IF ~hm.some
    THEN [cwd |-> wd,
          res |-> RunErr(Builtin("Cd"),
                         <<"failed to locate home directory">>, Status(1))]
    ELSE LET r == set_current_dir(wd, hm.val) IN
         IF r.ok THEN [cwd |-> r.dir, res |-> RunOk]
         ELSE [cwd |-> wd,
               res |-> RunErr(Builtin("Cd"), OsErrorText(r.errno),
                              Status(r.errno))]

\* handle_cd falling back to the home directory when the target fails
handle_cd_fallback(args, wd, hm) ==
    IF Len(args) >= 2
    THEN LET target_dir == args[2] IN
         IF target_dir = TILDE THEN cd_home_dir(wd, hm)
         ELSE LET r == set_current_dir(wd, target_dir) IN
              IF r.ok THEN [cwd |-> r.dir, res |-> RunOk]
              ELSE [cwd |-> HOME_DIR,
                    res |-> RunErr(Builtin("Cd"),
                                   target_dir
                                     \o <<":", SP,
                                          "No such file or directory">>,
                                   Status(r.errno))]
    ELSE cd_home_dir(wd, hm)

\* handle_cd with "~" taken for a path like any other
handle_cd_tilde_literal(args, wd, hm) ==
    IF Len(args) >= 2
    THEN LET target_dir == args[2]
             r == set_current_dir(wd, target_dir) IN
         IF r.ok THEN [cwd |-> r.dir, res |-> RunOk]
         ELSE [cwd |-> wd,
               res |-> RunErr(Builtin("Cd"),
                              target_dir
                                \o <<":", SP, "No such file or directory">>,
                              Status(r.errno))]
    ELSE cd_home_dir(wd, hm)

\* handle_cd
handle_cd(args, wd, hm) ==
    IF Len(args) >= 2
    THEN LET target_dir == args[2] IN
         IF target_dir = TILDE THEN cd_home_dir(wd, hm)
         ELSE LET r == set_current_dir(wd, target_dir) IN
              IF r.ok THEN [cwd |-> r.dir, res |-> RunOk]
              ELSE [cwd |-> wd,
                    res |-> RunErr(Builtin("Cd"),
                                   target_dir
                                     \o <<":", SP,
                                          "No such file or directory">>,
                                   Status(r.errno))]
    ELSE cd_home_dir(wd, hm)

\* -------------------------------------------------------------------- echo
\* [String]::join(" ")
RECURSIVE join_spaces(_)
join_spaces(ts) ==
    IF ts = <<>> THEN <<>>
    ELSE IF Len(ts) = 1 THEN ts[1]
    ELSE ts[1] \o <<SP>> \o join_spaces(Tail(ts))

\* handle_echo printing the whole of args
handle_echo_all(args) ==
    LET toks == args IN
    IF toks = <<>> THEN [out |-> <<>>, res |-> RunOk]
    ELSE [out |-> join_spaces(toks) \o <<NL>>, res |-> RunOk]

\* handle_echo printing an empty line when there is nothing to print
handle_echo_empty_line(args) ==
    LET toks == Tail(args) IN
    IF toks = <<>> THEN [out |-> <<NL>>, res |-> RunOk]
    ELSE [out |-> join_spaces(toks) \o <<NL>>, res |-> RunOk]

\* handle_echo
handle_echo(args) ==
    LET toks == Tail(args) IN
    IF toks = <<>> THEN [out |-> <<>>, res |-> RunOk]
    ELSE [out |-> join_spaces(toks) \o <<NL>>, res |-> RunOk]

\* --------------------------------------------------------------------- pwd
\* handle_pwd printing the root directory wherever the process is
handle_pwd_root(args, wd) ==
    IF wd = GONE
    THEN [out |-> <<>>,
          res |-> RunErr(Builtin("Pwd"), OsErrorText(ENOENT),
                         Status(ENOENT))]
    ELSE [out |-> ROOT \o <<NL>>, res |-> RunOk]

\* handle_pwd; env::current_dir() fails when the directory is gone
handle_pwd(args, wd) ==
    IF wd = GONE
    THEN [out |-> <<>>,
          res |-> RunErr(Builtin("Pwd"), OsErrorText(ENOENT),
                         Status(ENOENT))]
    ELSE [out |-> wd \o <<NL>>, res |-> RunOk]

\* -------------------------------------------------------------------- type
Looked(r, ls) == [r EXCEPT !.lookups = ls]

\* handle_type consulting the path resolver before the builtin names
handle_type_path_first(args, penv, files) ==
    IF Len(args) < 2
    THEN [out |-> <<>>,
          res |-> RunErr(Builtin("Type"), <<"missing argument">>, Status(1))]
    ELSE LET cmd_name == args[2]
             found == find_in_path(penv, files, cmd_name) IN
         IF found.some
         THEN [out |-> cmd_name \o <<SP, "is", SP>> \o found.val \o <<NL>>,
               res |-> Looked(RunOk, <<"find_in_path">>)]
         ELSE IF is_builtin(cmd_name)
         THEN [out |-> cmd_name \o <<SP, "is a shell builtin", NL>>,
               res |-> Looked(RunOk, <<"find_in_path", "is_builtin">>)]
         ELSE [out |-> <<>>,
               res |-> Looked(RunErr(Unknown(cmd_name), <<"not found">>,
                                     Status(1)),
                              <<"find_in_path", "is_builtin">>)]

\* handle_type looking its argument up before checking that there is one
handle_type_eager(args, penv, files) ==
    LET cmd_name == IF Len(args) < 2 THEN <<>> ELSE args[2]
        builtin == is_builtin(cmd_name)
        found == find_in_path(penv, files, cmd_name) IN
    IF Len(args) < 2
    THEN [out |-> <<>>,
          res |-> Looked(RunErr(Builtin("Type"), <<"missing argument">>,
                                Status(1)),
                         <<"is_builtin", "find_in_path">>)]
    ELSE IF builtin
    THEN [out |-> cmd_name \o <<SP, "is a shell builtin", NL>>,
          res |-> Looked(RunOk, <<"is_builtin">>)]
    ELSE IF found.some
         THEN [out |-> cmd_name \o <<SP, "is", SP>> \o found.val \o <<NL>>,
               res |-> Looked(RunOk, <<"is_builtin", "find_in_path">>)]
         ELSE [out |-> <<>>,
               res |-> Looked(RunErr(Unknown(cmd_name), <<"not found">>,
                                     Status(1)),
                              <<"is_builtin", "find_in_path">>)]

\* handle_type consulting its last argument
handle_type_last(args, penv, files) ==
    IF Len(args) < 2
    THEN [out |-> <<>>,
          res |-> RunErr(Builtin("Type"), <<"missing argument">>, Status(1))]
    ELSE LET cmd_name == args[Len(args)] IN
         IF is_builtin(cmd_name)
         THEN [out |-> cmd_name \o <<SP, "is a shell builtin", NL>>,
               res |-> Looked(RunOk, <<"is_builtin">>)]
         ELSE LET found == find_in_path(penv, files, cmd_name) IN
              IF found.some
              THEN [out |-> cmd_name \o <<SP, "is", SP>> \o found.val
                              \o <<NL>>,
                    res |-> Looked(RunOk, <<"is_builtin", "find_in_path">>)]
              ELSE [out |-> <<>>,
                    res |-> Looked(RunErr(Unknown(cmd_name), <<"not found">>,
                                          Status(1)),
                                   <<"is_builtin", "find_in_path">>)]

\* handle_type
handle_type(args, penv, files) ==
    IF Len(args) < 2
    THEN [out |-> <<>>,
          res |-> RunErr(Builtin("Type"), <<"missing argument">>, Status(1))]
    ELSE LET cmd_name == args[2] IN
         IF is_builtin(cmd_name)
         THEN [out |-> cmd_name \o <<SP, "is a shell builtin", NL>>,
               res |-> Looked(RunOk, <<"is_builtin">>)]
         ELSE LET found == find_in_path(penv, files, cmd_name) IN
              IF found.some
              THEN [out |-> cmd_name \o <<SP, "is", SP>> \o found.val
                              \o <<NL>>,
                    res |-> Looked(RunOk, <<"is_builtin", "find_in_path">>)]
              ELSE [out |-> <<>>,
                    res |-> Looked(RunErr(Unknown(cmd_name), <<"not found">>,
                                          Status(1)),
                                   <<"is_builtin", "find_in_path">>)]

\* ------------------------------------------------------------ Command::run
\* the arms of Command::run that finish within the call: the working
\* directory left, the output written and the value returned.  The
\* Executable arm goes on in handle_executable.
run(cmd, wd, hm, penv, files) ==
    LET kind == cmd.type_.kind IN
    CASE kind = "Cd" ->
           LET r == handle_cd(cmd.args, wd, hm) IN
           [cwd |-> r.cwd, out |-> <<>>, res |-> r.res]
      [] kind = "Echo" ->
           LET r == handle_echo(cmd.args) IN
           [cwd |-> wd, out |-> r.out, res |-> r.res]
      [] kind = "Exit" -> [cwd |-> wd, out |-> <<>>, res |-> RunOk]
      [] kind = "Pwd" ->
           LET r == handle_pwd(cmd.args, wd) IN
           [cwd |-> wd, out |-> r.out, res |-> r.res]
      [] kind = "Type" ->
           LET r == handle_type(cmd.args, penv, files) IN
           [cwd |-> wd, out |-> r.out, res |-> r.res]
      [] kind = "Unknown" ->
           [cwd |-> wd, out |-> <<>>,
            res |-> [NoRun EXCEPT !.err = "CommandNotFound",
                                  !.type_ = cmd.type_]]
      [] OTHER -> [cwd |-> wd, out |-> <<>>, res |-> NoRun]

\* ----------------------------------------------------------------- actions
InitCmd ==
    /\ reader \in CmdReaders
    /\ NoTokenizer
    /\ path_env \in PathEnvs
    /\ fs \in FileSystems
    /\ command = NotCalled
    /\ arm = "none"
    /\ ExecIdle
    /\ ShIdle

\* Command::new(reader)
CommandNew ==
    /\ command = NotCalled
    /\ command' = new(reader, path_env, fs)
    /\ UNCHANGED <<tokvars, path_env, fs, arm, execvars, shvars>>

\* Command::run(&self): the match on self.type_ and the handler of the arm
\* selected; the Executable arm enters handle_executable
Run ==
    /\ command.ok
    /\ arm = "none"
    /\ arm' = run_arm(command.type_)
    /\ hpc' = IF command.type_.kind = "Executable" THEN "spawn" ELSE hpc
    /\ LET r == run(command, cwd, home, path_env, fs) IN
          /\ cwd' = r.cwd
          /\ out' = r.out
          /\ rres' = r.res
    /\ UNCHANGED <<tokvars, path_env, fs, command, home>>
    /\ UNCHANGED <<hres, child, pipe, relay, sink, copied>>

NextCmd == CommandNew \/ Run

SpecCmd == InitCmd /\ [][NextCmd]_vars

(***************************************************************************)
(* The shell running builtin commands one after the other: each step is    *)
(* one Command::run on a Command of a builtin kind, in the working         *)
(* directory the commands before it left.                                  *)
(***************************************************************************)
MaxWords == 2     \* arguments after the name of a builtin command

ArgSeqs(ws, n) == UNION {[1..k -> ws] : k \in 0..n}

PAD_ECHO == <<SP>> \o ECHO \o <<SP>>
A_B == <<"a", SP, "b">>

CdTargets ==
    {TILDE, HOME_DIR, DIR1, DIR1 \o <<SLASH>>, SUB, DOTDOT, NX, FILE_F}
CdArgs ==
    {<<CD>>, <<CD, TILDE, DIR1>>, <<CD, DIR1, TILDE>>}
    \cup {<<CD, t>> : t \in CdTargets}
EchoWords == {<<"a">>, A_B, ECHO}
EchoArgs ==
    {<<n>> \o ws : n \in {ECHO, PAD_ECHO},
                   ws \in ArgSeqs(EchoWords, MaxWords)}
TypeWords == {ECHO, LS, PAD_ECHO, <<SP>> \o LS}
TypeArgs == {<<TYPE>> \o ws : ws \in ArgSeqs(TypeWords, MaxWords)}
PwdArgs == {<<PWD>>, <<PWD, LS>>}
ExitArgs == {<<EXIT>>, <<EXIT, LS>>}

Homes == {None, Some(HOME_DIR), Some(NX), Some(FILE_F)}
ShPathEnvs ==
    {[set |-> FALSE, text |-> <<>>],
     [set |-> TRUE, text |-> DIR2 \o <<COLON>> \o DIR1]}
ShFileSystems ==
    {[exec |-> {}, plain |-> {}],
     [exec |-> {join(DIR1, LS), join(DIR2, LS)}, plain |-> {}],
     [exec |-> {join(DIR2, ECHO), join(DIR1, LS)},
      plain |-> {join(DIR2, LS)}]}

InitSh ==
    /\ reader = LineReader(<<>>)
    /\ NoTokenizer
    /\ path_env \in ShPathEnvs
    /\ fs \in ShFileSystems
    /\ command = NotCalled
    /\ arm = "none"
    /\ ExecIdle
    /\ cwd \in Directories \cup {GONE}
    /\ home \in Homes
    /\ out = <<>>
    /\ rres = NoRun

\* Command::run on the Command cmd
RunBuiltin(cmd) ==
    /\ command' = cmd
    /\ arm' = run_arm(cmd.type_)
    /\ LET r == run(cmd, cwd, home, path_env, fs) IN
          /\ cwd' = r.cwd
          /\ out' = r.out
          /\ rres' = r.res
    /\ UNCHANGED <<tokvars, path_env, fs, home, execvars>>

RunCd == \E args \in CdArgs : RunBuiltin(CmdOk(Builtin("Cd"), args))
RunEcho == \E args \in EchoArgs : RunBuiltin(CmdOk(Builtin("Echo"), args))
RunExit == \E args \in ExitArgs : RunBuiltin(CmdOk(Builtin("Exit"), args))
RunPwd == \E args \in PwdArgs : RunBuiltin(CmdOk(Builtin("Pwd"), args))
RunType == \E args \in TypeArgs : RunBuiltin(CmdOk(Builtin("Type"), args))

NextSh == RunCd \/ RunEcho \/ RunExit \/ RunPwd \/ RunType

SpecSh == InitSh /\ [][NextSh]_vars

(***************************************************************************)
(* Part 3: handle_executable                                               *)
(*                                                                         *)
(* hpc is the line the main thread stands before: "spawn" (19-24),         *)
(* "thread_out" (32), "thread_err" (33), "wait" (35), "join_out" (38-41),  *)
(* "join_err" (42-45, followed without blocking by 47-61), "returned".     *)
(* A relay thread is io::copy from its pipe to the shell's stream; when it *)
(* ends, its end of the pipe, moved into the closure, is dropped.  The     *)
(* child writes chunks to its stdout and stderr in the order of its        *)
(* program and then terminates, which closes its ends of both pipes.       *)
(***************************************************************************)
MaxWrites == 3    \* chunks a child writes before it terminates
PipeCap == 1      \* chunks a pipe buffers before a write blocks

SpawnErrnos == {ENOENT, EACCES}
ExitCodes == {0, 1, 2}

\* how a child can terminate: Status(code), or NoStatus when by signal
Exits == {Status(c) : c \in ExitCodes} \cup {NoStatus}

Programs == UNION {[1..n -> Streams] : n \in 0..MaxWrites}

\* into_rush_err: msg is the text of the io::Error, status its errno
into_rush_err(errno) ==
    [ok |-> FALSE, err |-> "CommandError", type_ |-> command.type_,
     code |-> NoStatus, msg |-> Msg("os error", Status(errno)),
     status |-> Status(errno)]

\* lines 47-61 with every status taken for a success
outcome_always_ok(status) ==
    [ok |-> TRUE, err |-> "", type_ |-> NoType, code |-> status,
     msg |-> Msg("", NoStatus), status |-> NoStatus]

\* lines 47-61 with a missing code reported as code 0
outcome_signal_as_code(status) ==
    IF status.some /\ status.val = 0
    THEN [ok |-> TRUE, err |-> "", type_ |-> NoType, code |-> status,
          msg |-> Msg("", NoStatus), status |-> NoStatus]
    ELSE [ok |-> FALSE, err |-> "CommandError", type_ |-> command.type_,
          code |-> NoStatus,
          msg |-> Msg("process exited with code",
                      IF status.some THEN status ELSE Status(0)),
          status |-> IF status.some THEN status ELSE Status(0)]

\* lines 47-61: the value returned for the ExitStatus of the child
outcome(status) ==
    IF status.some /\ status.val = 0
    THEN [ok |-> TRUE, err |-> "", type_ |-> NoType, code |-> status,
          msg |-> Msg("", NoStatus), status |-> NoStatus]
    ELSE [ok |-> FALSE, err |-> "CommandError", type_ |-> command.type_,
          code |-> NoStatus,
          msg |-> IF status.some
                  THEN Msg("process exited with code", status)
                  ELSE Msg("process terminated by signal", NoStatus),
          status |-> status]

\* the Commands the executor is entered with: those of kind Executable
\* that Command::new builds of the lines `ls`, `ls a` and `s`
ExecCommands(penv, files) ==
    {c \in {classify(from_str(a[1]), a, penv, files) :
                a \in {<<LS>>, <<LS, <<"a">>>>, <<SUB>>}} :
        c.ok /\ c.type_.kind = "Executable"}

InitExec ==
    /\ reader = LineReader(<<>>)
    /\ NoTokenizer
    /\ path_env = [set |-> TRUE, text |-> DIR1 \o <<COLON>> \o DIR2]
    \* in the second world /d/s is a directory with the x bit, in the third
    \* /e/s is a file without it
    /\ fs \in {[exec |-> {join(DIR1, LS)}, plain |-> {}],
              [exec |-> {join(DIR1, SUB), join(DIR2, SUB)}, plain |-> {}],
              [exec |-> {join(DIR1, SUB)}, plain |-> {join(DIR2, SUB)}]}
    /\ command \in ExecCommands(path_env, fs)
    /\ arm = "Executable"
    /\ hpc = "spawn"
    /\ hres = NoReturn
    /\ child = NoChild
    /\ pipe = [s \in Streams |-> ClosedPipe]
    /\ relay = [s \in Streams |-> "none"]
    /\ sink \in [Streams -> BOOLEAN]
    /\ copied = [s \in Streams |-> 0]
    /\ ShIdle

\* ---------------------------------------------------------- the OS lookup
\* execve(2) runs a file that has an x bit and is no directory
runnable(files, path) == path \in files.exec /\ path \notin Directories

\* execvp(3) over the directories of PATH: the first file it can run
RECURSIVE execvp_search(_, _, _)
execvp_search(dirs, name, files) ==
    IF dirs = <<>> THEN None
    ELSE LET full_path == join(Head(dirs), name) IN
         IF runnable(files, full_path) THEN Some(full_path)
         ELSE execvp_search(Tail(dirs), name, files)

\* the file process::Command::new(name).spawn() runs: the name itself when
\* it holds a slash, else the OS's own search of PATH
execvp(name, penv, files) ==
    IF \E i \in 1..Len(name) : name[i] = SLASH
    THEN IF runnable(files, name) THEN Some(name) ELSE None
    ELSE IF ~penv.set THEN None
    ELSE execvp_search(split_paths(penv.text), name, files)

\* ------------------------------------------------------------ main thread
\* process::Command::new(name).args(&args[1..]) ... .spawn()
Spawn ==
    /\ hpc = "spawn"
    /\ execvp(command.type_.name, path_env, fs).some
    /\ \E prog \in Programs :
          /\ child' = [state |-> "running", prog |-> prog, exit |-> NoStatus,
                       program |-> command.type_.name,
                       file |-> execvp(command.type_.name, path_env,
                                       fs).val,
                       argv |-> Tail(command.args),
                       wrote |-> [s \in Streams |-> 0]]
          /\ pipe' = [s \in Streams |->
                        [buf |-> 0, wopen |-> TRUE, ropen |-> TRUE]]
          /\ hpc' = "thread_out"
    /\ UNCHANGED <<tokvars, cmdvars, shvars, hres, relay, sink, copied>>

\* spawn() fails and the errno of the io::Error is dropped
SpawnFailNoStatus ==
    /\ hpc = "spawn"
    /\ \E errno \in SpawnErrnos :
          hres' = [into_rush_err(errno) EXCEPT !.status = NoStatus]
    /\ hpc' = "returned"
    /\ UNCHANGED <<tokvars, cmdvars, shvars, child, pipe, relay, sink, copied>>

\* spawn() fails: into_rush_err and the early return of the ?
SpawnFail ==
    /\ hpc = "spawn"
    /\ \E errno \in SpawnErrnos : hres' = into_rush_err(errno)
    /\ hpc' = "returned"
    /\ UNCHANGED <<tokvars, cmdvars, shvars, child, pipe, relay, sink, copied>>

\* thread::spawn of the relay of stream s, leading on to position next
StartRelay(s, here, next) ==
    /\ hpc = here
    /\ relay' = [relay EXCEPT ![s] = "running"]
    /\ hpc' = next
    /\ UNCHANGED <<tokvars, cmdvars, shvars, hres, child, pipe, sink, copied>>

StartRelayOut == StartRelay("out", "thread_out", "thread_err")
StartRelayErr == StartRelay("err", "thread_err", "wait")

\* child.wait() returns the ExitStatus once the child has terminated
Wait ==
    /\ hpc = "wait"
    /\ child.state = "exited"
    /\ hpc' = "join_out"
    /\ UNCHANGED <<tokvars, cmdvars, shvars, hres, child, pipe, relay, sink, copied>>

\* child.wait() fails, as waitpid does with ECHILD once a child whose
\* SIGCHLD is ignored has terminated: into_rush_err and the early return
\* of the ?
WaitFail ==
    /\ hpc = "wait"
    /\ child.state = "exited"
    /\ hres' = into_rush_err(ECHILD)
    /\ hpc' = "returned"
    /\ UNCHANGED <<tokvars, cmdvars, shvars, child, pipe, relay, sink, copied>>

\* stdout_thread.join() discarding the io::Result of the relay
JoinOutIgnoring ==
    /\ hpc = "join_out"
    /\ relay["out"] \in {"ok", "failed"}
    /\ hpc' = "join_err"
    /\ UNCHANGED <<tokvars, cmdvars, shvars, hres, child, pipe, relay, sink, copied>>

\* stdout_thread.join() ... .map_err(into_rush_err)?
JoinOut ==
    /\ hpc = "join_out"
    /\ relay["out"] \in {"ok", "failed"}
    /\ IF relay["out"] = "failed"
       THEN hres' = into_rush_err(EPIPE) /\ hpc' = "returned"
       ELSE hpc' = "join_err" /\ UNCHANGED hres
    /\ UNCHANGED <<tokvars, cmdvars, shvars, child, pipe, relay, sink, copied>>

\* stderr_thread.join() ... .map_err(into_rush_err)? and, when the relay
\* succeeded, the return of lines 47-61
JoinErr ==
    /\ hpc = "join_err"
    /\ relay["err"] \in {"ok", "failed"}
    /\ hres' = IF relay["err"] = "failed"
               THEN into_rush_err(EPIPE)
               ELSE outcome(child.exit)
    /\ hpc' = "returned"
    /\ UNCHANGED <<tokvars, cmdvars, shvars, child, pipe, relay, sink, copied>>

\* ---------------------------------------------------------- relay threads
\* one thread relaying stdout to its end and only then stderr
RelayCopySequential(s) ==
    /\ relay[s] = "running"
    /\ s = "err" => relay["out"] \in {"ok", "failed"}
    /\ pipe[s].buf > 0
    /\ IF sink[s]
       THEN /\ pipe' = [pipe EXCEPT ![s].buf = @ - 1]
            /\ copied' = [copied EXCEPT ![s] = @ + 1]
            /\ UNCHANGED relay
       ELSE /\ pipe' = [pipe EXCEPT ![s].buf = 0, ![s].ropen = FALSE]
            /\ relay' = [relay EXCEPT ![s] = "failed"]
            /\ UNCHANGED copied
    /\ UNCHANGED <<tokvars, cmdvars, shvars, hpc, hres, child, sink>>

\* io::copy moves one chunk from the pipe to the shell's stream; a failed
\* write ends the thread with Err and drops the read end of the pipe
RelayCopy(s) ==
    /\ relay[s] = "running"
    /\ pipe[s].buf > 0
    /\ IF sink[s]
       THEN /\ pipe' = [pipe EXCEPT ![s].buf = @ - 1]
            /\ copied' = [copied EXCEPT ![s] = @ + 1]
            /\ UNCHANGED relay
       ELSE /\ pipe' = [pipe EXCEPT ![s].buf = 0, ![s].ropen = FALSE]
            /\ relay' = [relay EXCEPT ![s] = "failed"]
            /\ UNCHANGED copied
    /\ UNCHANGED <<tokvars, cmdvars, shvars, hpc, hres, child, sink>>

\* io::copy stops as soon as the write end is closed
RelayEofEarly(s) ==
    /\ relay[s] = "running"
    /\ ~pipe[s].wopen
    /\ relay' = [relay EXCEPT ![s] = "ok"]
    /\ pipe' = [pipe EXCEPT ![s].ropen = FALSE]
    /\ UNCHANGED <<tokvars, cmdvars, shvars, hpc, hres, child, sink, copied>>

\* io::copy reads end of stream: the pipe is empty and its write end is
\* closed; the thread ends with Ok
RelayEof(s) ==
    /\ relay[s] = "running"
    /\ pipe[s].buf = 0
    /\ ~pipe[s].wopen
    /\ relay' = [relay EXCEPT ![s] = "ok"]
    /\ pipe' = [pipe EXCEPT ![s].ropen = FALSE]
    /\ UNCHANGED <<tokvars, cmdvars, shvars, hpc, hres, child, sink, copied>>

RelayOut == RelayCopy("out") \/ RelayEof("out")
RelayErr == RelayCopy("err") \/ RelayEof("err")

\* ------------------------------------------------------------------- child
\* the termination of the child closes its ends of both pipes
Terminated(c, e) == [c EXCEPT !.state = "exited", !.prog = <<>>, !.exit = e]
WriteEndsClosed == [s \in Streams |-> [pipe[s] EXCEPT !.wopen = FALSE]]

\* the child writes its next chunk: into the pipe if there is room; when
\* the read end is gone the write raises SIGPIPE, which kills the child
\* unless it ignores the signal and goes on
ChildWrite ==
    /\ child.state = "running"
    /\ child.prog # <<>>
    /\ LET s == Head(child.prog) IN
        IF pipe[s].ropen
        THEN /\ pipe[s].buf < PipeCap
             /\ pipe' = [pipe EXCEPT ![s].buf = @ + 1]
             /\ child' = [child EXCEPT !.prog = Tail(@), !.wrote[s] = @ + 1]
        ELSE \/ /\ child' = Terminated(child, NoStatus)
                /\ pipe' = WriteEndsClosed
             \/ /\ child' = [child EXCEPT !.prog = Tail(@)]
                /\ UNCHANGED pipe
    /\ UNCHANGED <<tokvars, cmdvars, shvars, hpc, hres, relay, sink, copied>>

\* the child terminates after its last write, with an exit code or by a
\* signal
ChildExit ==
    /\ child.state = "running"
    /\ child.prog = <<>>
    /\ \E e \in Exits : child' = Terminated(child, e)
    /\ pipe' = WriteEndsClosed
    /\ UNCHANGED <<tokvars, cmdvars, shvars, hpc, hres, relay, sink, copied>>

\* the steps the main thread takes whenever it is not blocked; at "wait"
\* it is the success of wait() that the scheduler owes, not its failure
Handler ==
    \/ Spawn \/ SpawnFail \/ StartRelayOut \/ StartRelayErr
    \/ Wait \/ JoinOut \/ JoinErr

NextExec ==
    \/ Spawn \/ SpawnFail \/ StartRelayOut \/ StartRelayErr
    \/ Wait \/ WaitFail \/ JoinOut \/ JoinErr
    \/ RelayOut \/ RelayErr
    \/ ChildWrite \/ ChildExit

SpecExec == InitExec /\ [][NextExec]_vars

\* the scheduler runs every thread that can take a step, and the child
\* goes on writing and terminates whenever it is not blocked
SpecExecFair ==
    /\ SpecExec
    /\ WF_vars(Handler)
    /\ WF_vars(RelayOut) /\ WF_vars(RelayErr)
    /\ WF_vars(ChildWrite) /\ WF_vars(ChildExit)

(***************************************************************************)
(* Reference reading of a line, used only to state the claims: the line    *)
(* as shell quoting describes it.  A span is a quoted stretch '...' or a   *)
(* maximal unquoted stretch without space or quote; a group is a maximal   *)
(* run of spans with no unquoted space between them.                       *)
(***************************************************************************)
Count(s, c) == Cardinality({i \in 1..Len(s) : s[i] = c})

Balanced(s) == Count(s, SQ) % 2 = 0

AllSpaces(s) == \A i \in 1..Len(s) : s[i] = SP

QSpan(t) == [q |-> TRUE, text |-> t]
USpan(t) == [q |-> FALSE, text |-> t]

ScanInit == [groups |-> <<>>, cur |-> <<>>, word |-> <<>>, inq |-> FALSE]

\* close the unquoted stretch, if any, as a span of the current group
EndWord(a) ==
    IF a.word = <<>> THEN a
    ELSE [a EXCEPT !.cur = Append(@, USpan(a.word)), !.word = <<>>]

\* close the current group, if any
EndGroup(a) ==
    IF a.cur = <<>> THEN a
    ELSE [a EXCEPT !.groups = Append(@, a.cur), !.cur = <<>>]

ScanChar(a, c) ==
    IF a.inq THEN
        IF c = SQ
        THEN [a EXCEPT !.cur = Append(@, QSpan(a.word)), !.word = <<>>,
                       !.inq = FALSE]
        ELSE [a EXCEPT !.word = Append(@, c)]
    ELSE IF c = SQ THEN [EndWord(a) EXCEPT !.inq = TRUE]
    ELSE IF c = SP THEN EndGroup(EndWord(a))
    ELSE [a EXCEPT !.word = Append(@, c)]

RECURSIVE Scan(_, _)
Scan(a, s) == IF s = <<>> THEN a ELSE Scan(ScanChar(a, Head(s)), Tail(s))

\* the groups of a line with balanced quotes
Groups(s) == EndGroup(EndWord(Scan(ScanInit, s))).groups

RECURSIVE Concat(_)
Concat(ss) == IF ss = <<>> THEN <<>> ELSE Head(ss) \o Concat(Tail(ss))

\* the text of a group: its span contents, joined
GroupText(g) == Concat([k \in 1..Len(g) |-> g[k].text])

\* one token per group
GroupTexts(gs) == [k \in 1..Len(gs) |-> GroupText(gs[k])]

\* the space-separated words of a line
Words(s) == GroupTexts(Groups(s))

Blank(t) == AllSpaces(t)

IsWord(g) == Len(g) = 1 /\ ~g[1].q
IsQuotedSpan(g) == Len(g) = 1 /\ g[1].q

\* t occurs in s as a contiguous stretch
Occurs(t, s) ==
    \E k \in 0..(Len(s) - Len(t)) : SubSeq(s, k + 1, k + Len(t)) = t

\* the first call of tokenize on a Tokenizer built from a line has returned
Returned == pc = "done" /\ calls = 1 /\ reader.kind = "line"

line == reader.text

\* the groups of the line, each read as shell quoting reads it
G == Groups(line)

\* every group but number k is a plain unquoted word
OthersAreWords(k) == \A m \in 1..Len(G) : m # k => IsWord(G[m])

\* group g is two adjacent spans with visible content, at least one quoted
IsJoinedPair(g) ==
    /\ Len(g) = 2
    /\ g[1].q \/ g[2].q
    /\ ~Blank(g[1].text) /\ ~Blank(g[2].text)

(***************************************************************************)
(* C1: spans with no space between them are joined into one token, be the  *)
(* pair quoted-quoted, unquoted-quoted or quoted-unquoted, wherever the    *)
(* pair stands among the unquoted words of the line: the line              *)
(* tokenizes to one token per group.                                       *)
(***************************************************************************)
C1_AdjacentSpansJoin ==
    (Returned /\ Balanced(line)
       /\ \E k \in 1..Len(G) : IsJoinedPair(G[k]) /\ OthersAreWords(k))
    => result = Ok(GroupTexts(G))

\* every group is a single span with visible content, quoted or not
IsSingleSpan(g) == Len(g) = 1 /\ ~Blank(g[1].text)

(***************************************************************************)
(* C2: spans separated by at least one unquoted space are never merged:    *)
(* a line of single spans, quoted or unquoted, each separated from the     *)
(* next by spaces, tokenizes to the span contents, one token each, in      *)
(* input order.                                                            *)
(***************************************************************************)
C2_SpacedSpansStaySeparate ==
    (Returned /\ Balanced(line) /\ Len(G) >= 2
       /\ \A k \in 1..Len(G) : IsSingleSpan(G[k]))
    => result = Ok(GroupTexts(G))

(***************************************************************************)
(* C3: a line with an odd number of single-quote characters makes          *)
(* tokenize return UnterminatedQuote and no token list.                    *)
(***************************************************************************)
C3_OddQuotesFail ==
    (Returned /\ ~Balanced(line)) => result = UnterminatedQuote

(***************************************************************************)
(* C4: the content of every non-empty closed quoted span, spaces included, *)
(* stands unchanged in one of the returned tokens.                         *)
(***************************************************************************)
C4_QuotedContentPreserved ==
    (Returned /\ Balanced(line))
    => \A k \in 1..Len(G) : \A m \in 1..Len(G[k]) :
          (G[k][m].q /\ G[k][m].text # <<>>)
          => /\ result.ok
             /\ \E t \in 1..Len(result.tokens) :
                    Occurs(G[k][m].text, result.tokens[t])

(***************************************************************************)
(* C5: a line made only of non-empty quoted spans separated by spaces      *)
(* tokenizes to exactly one token, the concatenation of the span contents  *)
(* from left to right.                                                     *)
(***************************************************************************)
C5_QuotedSpansConcatenate ==
    (Returned /\ Balanced(line) /\ Len(G) >= 1
       /\ \A k \in 1..Len(G) : IsQuotedSpan(G[k]) /\ G[k][1].text # <<>>)
    => result = Ok(<<Concat(GroupTexts(G))>>)

(***************************************************************************)
(* C6: for the empty line and for a line of spaces only, tokenize succeeds *)
(* and returns zero tokens.                                                *)
(***************************************************************************)
C6_BlankLineNoTokens ==
    (Returned /\ AllSpaces(line)) => result = Ok(<<>>)

C6_Witness ==
    Returned /\ AllSpaces(line) /\ Len(line) >= 2 /\ result = Ok(<<>>)

(***************************************************************************)
(* C7: a line without quote characters tokenizes to exactly its words in   *)
(* input order, none of them empty, however many spaces separate them or   *)
(* stand before the first and after the last.                              *)
(***************************************************************************)
C7_UnquotedWordsSplit ==
    (Returned /\ Count(line, SQ) = 0)
    => /\ result = Ok(Words(line))
       /\ \A t \in 1..Len(result.tokens) : result.tokens[t] # <<>>

C7_Witness ==
    /\ Returned /\ Count(line, SQ) = 0
    /\ Len(line) >= 4
    /\ Head(line) = SP /\ line[Len(line)] = SP
    /\ \E i \in 2..(Len(line) - 2) :
          line[i] # SP /\ line[i + 1] = SP /\ line[i + 2] = SP
    /\ Len(result.tokens) = 2

\* the line with the two characters at i and i+1 taken out
Without(s, i) == SubSeq(s, 1, i - 1) \o SubSeq(s, i + 2, Len(s))

\* an empty quoted span at i, i+1 that stands alone
LoneEmptySpanAt(s, i) ==
    /\ s[i] = SQ /\ s[i + 1] = SQ
    /\ Balanced(SubSeq(s, 1, i - 1))
    /\ i = 1 \/ s[i - 1] = SP
    /\ i + 1 = Len(s) \/ s[i + 2] = SP

(***************************************************************************)
(* C8: an empty quoted span that stands alone produces no token and leaves *)
(* the other tokens as they are: the line tokenizes like the line with     *)
(* the span removed.                                                       *)
(***************************************************************************)
C8_LoneEmptySpanVanishes ==
    Returned
    => \A i \in 1..(Len(line) - 1) :
          LoneEmptySpanAt(line, i)
          => result = TokenizeRun(<<>>, Trim(Without(line, i))).ret

\* group g is an unquoted word with an empty quoted span before it, after
\* it or inside it
IsWordWithEmptySpan(g) ==
    \/ Len(g) = 2 /\ ~g[1].q /\ g[2].q /\ g[2].text = <<>>
    \/ Len(g) = 2 /\ g[1].q /\ g[1].text = <<>> /\ ~g[2].q
    \/ Len(g) = 3 /\ ~g[1].q /\ g[2].q /\ g[2].text = <<>> /\ ~g[3].q

(***************************************************************************)
(* C9: an empty quoted span written directly next to an unquoted word has  *)
(* no effect: a'' and ''a tokenize like a, a''b like ab, also when         *)
(* further space-separated words follow.                                   *)
(***************************************************************************)
C9_AdjacentEmptySpanNoEffect ==
    (Returned /\ Balanced(line) /\ Len(G) >= 1
       /\ IsWordWithEmptySpan(G[1]) /\ OthersAreWords(1))
    => result = Ok(GroupTexts(G))

\* the line has no single quote and one double-quoted span, from i to j,
\* with a space or the line boundary on both sides
DoubleQuotedAt(s, i, j) ==
    /\ i < j /\ s[i] = DQ /\ s[j] = DQ
    /\ Count(s, DQ) = 2 /\ Count(s, SQ) = 0
    /\ i = 1 \/ s[i - 1] = SP
    /\ j = Len(s) \/ s[j + 1] = SP

(***************************************************************************)
(* C10: a double-quoted span is one token, made of exactly the characters  *)
(* between the two double-quote characters; an empty pair gives an         *)
(* empty-string token.                                                     *)
(***************************************************************************)
C10_DoubleQuotedSpanOneToken ==
    Returned
    => \A i, j \in 1..Len(line) :
          DoubleQuotedAt(line, i, j)
          => result = Ok(Words(SubSeq(line, 1, i - 1))
                         \o <<SubSeq(line, i + 1, j - 1)>>
                         \o Words(SubSeq(line, j + 1, Len(line))))

(***************************************************************************)
(* Claims on Command::new and Command::run, checked under SpecCmd.         *)
(***************************************************************************)
\* Command::new has returned
Built == command # NotCalled

\* the tokens of the reader's line, and token 0 when there is one
args0 == tokenize(reader)
HasName == reader.kind = "line" /\ args0.ok /\ args0.tokens # <<>>
name0 == args0.tokens[1]

KindOfName(n) ==
    CASE n = CD -> "Cd"
      [] n = ECHO -> "Echo"
      [] n = EXIT -> "Exit"
      [] n = PWD -> "Pwd"
      [] n = TYPE -> "Type"
      [] OTHER -> "Unknown"

(***************************************************************************)
(* C11: for an empty or whitespace-only line Command::new returns Nop,     *)
(* whose display text is empty, and builds no Command; every Command it    *)
(* returns has a non-empty args list.                                      *)
(***************************************************************************)
C11_BlankLineIsNop ==
    Built =>
      /\ (reader.kind = "line" /\ AllSpaces(line))
            => command = CmdErr("Nop", <<>>) /\ Display(command) = <<>>
      /\ command.ok => command.args # <<>>

C11_Witness ==
    /\ Built /\ reader.kind = "line" /\ AllSpaces(line) /\ Len(line) >= 2
    /\ command.err = "Nop" /\ ~command.ok

(***************************************************************************)
(* C12: when the reader is at end of stream and zero bytes are read, the   *)
(* outcome is UnexpectedEOF, not the zero-token outcome of an empty line.  *)
(***************************************************************************)
C12_EofIsUnexpectedEOF ==
    (reader.kind = "eof" /\ pc # "new")
    => pc = "failed" /\ result = UnexpectedEOF

(***************************************************************************)
(* C13: every Command that Command::new returns is one of the five         *)
(* builtins or an Executable, so Command::run never takes its Unknown arm. *)
(***************************************************************************)
C13_NoUnknownCommand ==
    /\ command.ok => command.type_.kind \in BuiltinKinds \cup {"Executable"}
    /\ arm # "Unknown"

C13_Witness ==
    /\ HasName /\ ~is_builtin(name0)
    /\ command.ok /\ command.type_.kind = "Executable"
    /\ arm = "Executable"

(***************************************************************************)
(* C14: when token 0 is no builtin name and PATH resolves nothing,         *)
(* Command::new returns CommandNotFound carrying the attempted name,       *)
(* displayed as "<name>: command not found"; no Command is built and no    *)
(* handler runs.                                                           *)
(***************************************************************************)
C14_NotFoundCarriesName ==
    (Built /\ HasName /\ Trim(name0) \notin BuiltinNames
       /\ ~find_in_path(path_env, fs, Trim(name0)).some)
    => /\ command = CmdErr("CommandNotFound", Trim(name0))
       /\ Display(command) = Trim(name0) \o <<": command not found">>
       /\ ~command.ok
       /\ arm = "none" /\ hpc = "idle"

C14_Witness ==
    /\ Built /\ HasName /\ name0 = ZZ /\ path_env.set
    /\ fs.exec # {}
    /\ command.err = "CommandNotFound" /\ command.name = ZZ

(***************************************************************************)
(* C15: a line whose first token is one of the five builtin names gives a  *)
(* Command of the matching builtin kind whatever PATH is: unset, empty, or *)
(* naming a directory with an executable of the same name.                 *)
(***************************************************************************)
C15_BuiltinIgnoresPath ==
    (Built /\ HasName /\ name0 \in BuiltinNames)
    => command = CmdOk(Builtin(KindOfName(name0)), args0.tokens)

C15_Witness ==
    /\ Built /\ HasName /\ name0 = ECHO
    /\ path_env = [set |-> TRUE, text |-> DIR2]
    /\ join(DIR2, ECHO) \in fs.exec
    /\ command.ok /\ command.type_.kind = "Echo"

(***************************************************************************)
(* C16: is_builtin(s) is true and from_str(s) is a builtin kind exactly    *)
(* when s, trimmed, is one of echo, exit, type, cd, pwd, case-sensitively; *)
(* every other s maps to Unknown carrying the trimmed s.                   *)
(***************************************************************************)
C16_BuiltinNamesExact ==
    (Built /\ HasName)
    => /\ is_builtin(name0) <=> Trim(name0) \in BuiltinNames
       /\ from_str(name0) =
             IF Trim(name0) \in BuiltinNames
             THEN Builtin(KindOfName(Trim(name0)))
             ELSE Unknown(Trim(name0))
       /\ Trim(name0) \in BuiltinNames
             => command.ok /\ command.type_.kind = KindOfName(Trim(name0))
       /\ Trim(name0) \notin BuiltinNames
             => IF command.ok
                THEN /\ command.type_.kind = "Executable"
                     /\ command.type_.name = Trim(name0)
                ELSE command = CmdErr("CommandNotFound", Trim(name0))

C16_Witness ==
    /\ Built /\ HasName
    /\ name0 = <<SP>> \o ECHO \o <<SP>>
    /\ command.ok /\ command.type_.kind = "Echo"

\* PATH as the list of its directories
dirs0 == split_paths(path_env.text)

\* "<dir>/<name>"
Slashed(dir, n) ==
    IF dir # <<>> /\ dir[Len(dir)] = SLASH
    THEN dir \o n
    ELSE dir \o <<SLASH>> \o n

\* the value find_in_path returned to Command::new for a non-builtin name
Found ==
    IF command.ok THEN Some(command.type_.path) ELSE None

Resolving == Built /\ HasName /\ Trim(name0) \notin BuiltinNames

(***************************************************************************)
(* C17 as claimed: find_in_path(name) returns "<dir>/<name>" for the first *)
(* directory of PATH in which that entry exists and is executable, and     *)
(* None when PATH is unset or no listed directory has such an entry.       *)
(***************************************************************************)
C17_FirstDirSlashName ==
    Resolving =>
      LET n == Trim(name0)
          Hit(i) == Slashed(dirs0[i], n) \in fs.exec
      IN IF path_env.set /\ \E i \in 1..Len(dirs0) : Hit(i)
         THEN \E i \in 1..Len(dirs0) :
                 /\ Hit(i) /\ \A j \in 1..(i - 1) : ~Hit(j)
                 /\ Found = Some(Slashed(dirs0[i], n))
         ELSE Found = None

\* the path find_in_path tries for one entry of PATH
Tried(dir, n) ==
    IF Head(n) = SLASH \/ dir = <<>> THEN n ELSE Slashed(dir, n)

(***************************************************************************)
(* C17 amended: find_in_path(name) returns the path it tried for the first *)
(* entry of PATH, in PATH order, whose tried path exists and is            *)
(* executable: "<dir>/<name>" for a non-empty dir and a relative name, the *)
(* name itself for an absolute name or an empty PATH entry.  A later       *)
(* match is never returned when an earlier entry matches; it returns None  *)
(* when PATH is unset or no entry matches.                                 *)
(***************************************************************************)
C17_FirstMatchWins ==
    Resolving =>
      LET n == Trim(name0)
          Hit(i) == Tried(dirs0[i], n) \in fs.exec
      IN IF path_env.set /\ \E i \in 1..Len(dirs0) : Hit(i)
         THEN \E i \in 1..Len(dirs0) :
                 /\ Hit(i) /\ \A j \in 1..(i - 1) : ~Hit(j)
                 /\ Found = Some(Tried(dirs0[i], n))
         ELSE Found = None

C17_Witness ==
    /\ Resolving /\ Trim(name0) = LS
    /\ path_env = [set |-> TRUE, text |-> DIR2 \o <<COLON>> \o DIR1]
    /\ join(DIR1, LS) \in fs.exec /\ join(DIR2, LS) \in fs.exec
    /\ Found = Some(join(DIR2, LS))

(***************************************************************************)
(* Claims about handle_executable                                          *)
(***************************************************************************)
Spawned == child.state # "none"
HandlerReturned == hpc = "returned"
Finished(s) == relay[s] \in {"ok", "failed"}
Failed(s) == relay[s] = "failed"
IsCommandError == ~hres.ok /\ hres.err = "CommandError"

\* C18: whenever handle_executable has returned after a successful spawn,
\* both relay threads have been started and neither is still running.
C18_NoRelayOutlivesHandler ==
    (HandlerReturned /\ Spawned) => \A s \in Streams : Finished(s)

\* C19: under fair scheduling, and whatever the order in which the child
\* writes to its bounded stdout and stderr pipes, a spawned child is never
\* blocked for ever and handle_executable eventually returns.
C19_HandlerEventuallyReturns == Spawned ~> HandlerReturned

\* the child wrote more to stderr than the pipe holds and nothing to
\* stdout, terminated, and the handler returned Ok
C19_Witness ==
    /\ HandlerReturned /\ hres.ok
    /\ child.state = "exited"
    /\ copied["err"] > PipeCap
    /\ copied["out"] = 0

\* C20: when handle_executable has returned and a relay failed, the value
\* returned is a CommandError and not Ok, whatever the exit code of the
\* child.
C20_RelayFailureIsCommandError ==
    (HandlerReturned /\ \E s \in Streams : Failed(s)) => IsCommandError

\* the stdout relay failed, the child exited with code 0, and the handler
\* returned a CommandError
C20_Witness ==
    /\ HandlerReturned /\ Failed("out")
    /\ child.exit = Status(0)
    /\ IsCommandError

\* the handler left through the ? of child.wait()
WaitFailed == HandlerReturned /\ Spawned /\ hres = into_rush_err(ECHILD)

\* wait() returned the status of the child and both joins returned Ok
StatusReported ==
    /\ HandlerReturned /\ Spawned /\ ~WaitFailed
    /\ \A s \in Streams : relay[s] = "ok"

\* C21: when wait() reports a normal termination and both relays
\* succeeded, the handler returns Ok(Some(0)) for exit code 0 and for any
\* other code N a CommandError with message "process exited with code N"
\* and status Some(N); a nonzero code is never a success nor status 0.
C21_ExitCodeReported ==
    (StatusReported /\ child.exit.some) =>
        IF child.exit.val = 0
        THEN hres.ok /\ hres.code = Status(0)
        ELSE /\ IsCommandError
             /\ hres.msg = Msg("process exited with code", child.exit)
             /\ hres.status = child.exit
             /\ hres.status # Status(0)

\* the child exited with code 1, both relays succeeded and the handler
\* returned the error carrying code 1
C21_Witness ==
    /\ StatusReported
    /\ child.exit = Status(1)
    /\ hres.status = Status(1)
    /\ ~hres.ok

\* C22: when wait() reports a termination by signal and both relays
\* succeeded, the handler returns a CommandError with message "process
\* terminated by signal" and status None.
C22_SignalReported ==
    (StatusReported /\ ~child.exit.some) =>
        /\ IsCommandError
        /\ hres.msg = Msg("process terminated by signal", NoStatus)
        /\ hres.status = NoStatus

\* the child was terminated by a signal after writing, both relays
\* succeeded and the handler returned the signal error
C22_Witness ==
    /\ StatusReported
    /\ ~child.exit.some
    /\ child.wrote["out"] > 0
    /\ hres.msg.text = "process terminated by signal"

\* C23: when spawn() fails the handler returns a CommandError of the
\* Executable kind of the command, whose message is the text of the OS
\* error and whose status is its number; no relay was started and there
\* is no child to wait for.
C23_SpawnFailureReported ==
    (HandlerReturned /\ ~Spawned) =>
        /\ IsCommandError
        /\ hres.type_ = command.type_
        /\ hres.type_.kind = "Executable"
        /\ hres.msg.text = "os error"
        /\ hres.status.some /\ hres.status.val \in SpawnErrnos
        /\ hres.msg.num = hres.status
        /\ \A s \in Streams : relay[s] = "none" /\ pipe[s] = ClosedPipe
        /\ child = NoChild

\* spawn() failed with ENOENT and the handler returned
C23_Witness ==
    /\ HandlerReturned /\ ~Spawned
    /\ hres.status = Status(ENOENT)
    /\ IsCommandError

\* the handler returned Ok, an exit-code error or a signal error
ReturnedStatus ==
    /\ HandlerReturned
    /\ \/ hres.ok
       \/ hres.msg.text \in {"process exited with code",
                             "process terminated by signal"}

\* C30: whenever handle_executable has returned Ok, an exit-code error or
\* a signal error, the child has terminated, both relays have read end of
\* stream and every chunk the child wrote to either pipe has been copied
\* to the shell's stream.
C30_OutputCopiedBeforeStatus ==
    ReturnedStatus =>
        /\ child.state = "exited"
        /\ \A s \in Streams :
              /\ relay[s] = "ok"
              /\ pipe[s].buf = 0
              /\ copied[s] = child.wrote[s]

\* the child wrote to both streams, everything was copied and the handler
\* returned Ok
C30_Witness ==
    /\ HandlerReturned /\ hres.ok
    /\ \A s \in Streams : child.wrote[s] > 0 /\ copied[s] = child.wrote[s]

(***************************************************************************)
(* Claims about the builtin handlers                                       *)
(***************************************************************************)
Ran(k) == command.ok /\ command.type_.kind = k /\ rres # NoRun
HomeForms == {<<CD>>, <<CD, TILDE>>}
Enterable(hm) == hm.some /\ hm.val \in Directories

\* C24: a step that runs `cd` or `cd ~` returns what the other form
\* returns from the same working directory, and the same from every
\* working directory; it succeeds when the home directory exists, and
\* then leaves the working directory equal to it; run again from the
\* directory it left, it returns the same and leaves the same directory.
C24_CdHomeEquivalentIdempotent ==
    [][(command'.type_.kind = "Cd" /\ command'.args \in HomeForms) =>
          LET bare == handle_cd(<<CD>>, cwd, home)
              tilde == handle_cd(<<CD, TILDE>>, cwd, home)
              again == handle_cd(command'.args, cwd', home)
          IN /\ bare = tilde
             /\ rres' = bare.res /\ cwd' = bare.cwd
             /\ \A d \in Directories :
                   handle_cd(command'.args, d, home).res = rres'
             /\ Enterable(home) => rres'.ok /\ cwd' = home.val
             /\ again.res = rres' /\ again.cwd = cwd']_vars

\* `cd ~` ran from another directory and left the shell in the home
\* directory
C24_Witness ==
    /\ Ran("Cd") /\ command.args = <<CD, TILDE>>
    /\ rres.ok
    /\ home = Some(HOME_DIR) /\ cwd = HOME_DIR

\* the directory a cd was asked to enter: the home directory for `cd` and
\* `cd ~`, else args[1]
CdTarget ==
    IF Len(command.args) < 2 \/ command.args[2] = TILDE
    THEN home.val
    ELSE command.args[2]
HomeUnknown ==
    (Len(command.args) < 2 \/ command.args[2] = TILDE) /\ ~home.some

\* C25: every failing cd returns a CommandError of kind Cd whose message
\* names the directory it tried to enter and whose status is the error
\* code of the OS; when no home directory is known there is no directory
\* to name.
C25_CdFailureNamesTarget ==
    (Ran("Cd") /\ ~rres.ok) =>
        /\ rres.err = "CommandError"
        /\ rres.type_ = Builtin("Cd")
        /\ rres.status.some
        /\ ~HomeUnknown =>
              /\ Occurs(CdTarget, rres.msg)
              /\ rres.status.val \in {ENOENT, ENOTDIR}

\* type's first argument, and whether it names a builtin
TypeArg == command.args[2]
NamesBuiltin(x) == KindOfName(Trim(x)) # "Unknown"

\* C26: after `type X ...`: if X, trimmed, is one of the five builtin
\* names the handler succeeded and printed "X is a shell builtin",
\* whatever the search path holds; otherwise, if the path resolver finds
\* X, it succeeded and printed "X is <path found>"; otherwise it failed
\* with a CommandError of status 1 whose display contains X and
\* "not found", and printed nothing.
C26_TypeReports ==
    (Ran("Type") /\ Len(command.args) >= 2) =>
        LET found == find_in_path(path_env, fs, TypeArg) IN
        IF NamesBuiltin(TypeArg)
        THEN rres.ok /\ out = TypeArg \o <<SP, "is a shell builtin", NL>>
        ELSE IF found.some
        THEN rres.ok /\ out = TypeArg \o <<SP, "is", SP>> \o found.val
                                \o <<NL>>
        ELSE /\ ~rres.ok /\ rres.err = "CommandError"
             /\ rres.status = Status(1)
             /\ Occurs(TypeArg, DisplayError(rres))
             /\ Occurs(<<"not found">>, DisplayError(rres))
             /\ out = <<>>

\* `type echo` ran while the search path holds an executable named echo,
\* and reported a builtin
C26_Witness ==
    /\ Ran("Type") /\ Len(command.args) >= 2
    /\ TypeArg = ECHO
    /\ find_in_path(path_env, fs, ECHO).some
    /\ rres.ok /\ out = ECHO \o <<SP, "is a shell builtin", NL>>

\* C27: `type` with nothing after the name fails with the CommandError of
\* kind Type, message "missing argument" and status 1, prints nothing and
\* consults neither the builtin names nor the path resolver.
C27_TypeMissingArgument ==
    (Ran("Type") /\ Len(command.args) < 2) =>
        /\ ~rres.ok /\ rres.err = "CommandError"
        /\ rres.type_ = Builtin("Type")
        /\ rres.msg = <<"missing argument">>
        /\ rres.status = Status(1)
        /\ out = <<>>
        /\ rres.lookups = <<>>

\* `type` ran alone, with a search path that holds executables
C27_Witness ==
    /\ Ran("Type") /\ command.args = <<TYPE>>
    /\ path_env.set /\ fs.exec # {}
    /\ ~rres.ok

\* C28: what `type a b c ...` returned and printed is what `type a`
\* returns and prints.
C28_TypeFirstArgumentOnly ==
    (Ran("Type") /\ Len(command.args) >= 2) =>
        LET first == handle_type(SubSeq(command.args, 1, 2), path_env, fs)
        IN rres = first.res /\ out = first.out

\* `type ls echo` ran with ls not to be found: it failed, though its
\* second argument names a builtin
C28_Witness ==
    /\ Ran("Type") /\ command.args = <<TYPE, LS, ECHO>>
    /\ ~find_in_path(path_env, fs, LS).some
    /\ ~rres.ok /\ out = <<>>

\* where argument k starts in the line echo prints
RECURSIVE EchoOffset(_, _)
EchoOffset(args, k) ==
    IF k <= 2 THEN 1
    ELSE EchoOffset(args, k - 1) + Len(args[k - 1]) + 1

\* C29: echo with at least one argument after the name succeeds and
\* writes one line: args[1], args[2], ... each at its place, one space
\* between neighbours, nothing before the first or after the last but the
\* newline that ends the line.
C29_EchoJoinsArguments ==
    (Ran("Echo") /\ Len(command.args) >= 2) =>
        LET args == command.args
            n == Len(args)
            end == EchoOffset(args, n) + Len(args[n])
        IN /\ rres.ok
           /\ Len(out) = end
           /\ out[end] = NL
           /\ Count(out, NL) = 1
           /\ \A k \in 2..n :
                 LET o == EchoOffset(args, k) IN
                 /\ SubSeq(out, o, o + Len(args[k]) - 1) = args[k]
                 /\ k < n => out[o + Len(args[k])] = SP

\* `echo a 'a b'` ran and wrote the line "a a b"
C29_Witness ==
    /\ Ran("Echo") /\ command.args = <<ECHO, <<"a">>, A_B>>
    /\ out = <<"a", SP, "a", SP, "b", NL>>
    /\ rres.ok

(***************************************************************************)
(* Claims about tokenize as a whole                                        *)
(***************************************************************************)
Tokenized == pc = "done" /\ reader.kind = "line"

\* C37: a call of tokenize on a Tokenizer that has already been tokenized
\* returns what the call before it returned.
C37_SecondCallSameTokens ==
    [][(pc = "done" /\ pc' = "done" /\ calls' = calls + 1)
          => result' = result]_vars

\* the characters of s that are neither whitespace nor the quote
Plain(s) == SelectSeq(s, LAMBDA c : c \notin Whitespace /\ c # SQ)

\* C38: when the call of tokenize on a line succeeds, the tokens returned,
\* laid end to end in their order, hold the non-whitespace, non-quote
\* characters of the line in the order of the line, each once.
C38_CharactersKeptInOrder ==
    (Returned /\ result.ok) =>
        Plain(Concat(result.tokens)) = Plain(line)

\* a line of a word and two quoted spans was tokenized into several
\* tokens
C38_Witness ==
    /\ Returned /\ result.ok
    /\ Len(result.tokens) >= 2
    /\ Count(line, SQ) = 4
    /\ Len(Plain(line)) >= 3

C40_FailsOnlyOnOddQuotes ==
    (Tokenized /\ result = UnterminatedQuote) => ~Balanced(line)

\* a line with one quote and an ordinary last character failed
C40_Witness ==
    /\ Returned /\ result = UnterminatedQuote
    /\ Count(line, SQ) = 1
    /\ line[Len(line)] \notin {SQ, SP}

(***************************************************************************)
(* Claims across classification, execution and the builtins                *)
(***************************************************************************)
\* C31: the file a spawned child runs is the one at the path the
\* Executable kind carries, and the child's arguments are args[1..].
C31_SpawnsResolvedPath ==
    Spawned =>
        /\ child.file = command.type_.path
        /\ child.argv = Tail(command.args)

\* the reader's line ends inside a quote, as Tokenizer::tokenize decides
QuoteLeftOpen ==
    /\ reader.kind = "line"
    /\ TokenizeRun(<<>>, Trim(reader.text)).ret = UnterminatedQuote

\* C32: when the reader fails, Command::new returns UnexpectedEOF, and
\* when tokenize returns UnterminatedQuote, Command::new returns
\* UnterminatedQuote; in both cases no Command is built and the value
\* returned is the same whatever PATH and the file system hold.
C32_TokenizerFailureUnchanged ==
    (Built /\ (reader.kind = "err" \/ QuoteLeftOpen)) =>
        /\ ~command.ok
        /\ command = CmdErr(IF reader.kind = "err" THEN "UnexpectedEOF"
                            ELSE "UnterminatedQuote", <<>>)
        /\ command.type_ = NoType
        /\ \A pe \in PathEnvs, f \in FileSystems :
              new(reader, pe, f) = command

\* Command::new ran on the line 'ls with ls on the search path, and
\* returned UnterminatedQuote
C32_Witness ==
    /\ Built /\ QuoteLeftOpen
    /\ reader.text = <<SQ>> \o LS
    /\ find_in_path(path_env, fs, LS).some
    /\ command.err = "UnterminatedQuote"

(***************************************************************************)
(* Claims about the working directory and the agreement of type with the   *)
(* classifier                                                              *)
(***************************************************************************)
CdSucceeded(k, r) == k = "Cd" /\ r.ok
AbsoluteTarget(args) ==
    Len(args) >= 2 /\ args[2] # <<>> /\ Head(args[2]) = SLASH

\* C33 as stated: a step that runs pwd where the OS can report the working
\* directory returns Ok and prints the directory the steps before left; a
\* step that is not a successful cd leaves that directory alone; a
\* successful `cd X` with an absolute X leaves a directory that pwd prints
\* as X.
C33_PwdPrintsTarget ==
    [][LET k == command'.type_.kind IN
       /\ (k = "Pwd" /\ cwd # GONE) =>
             (rres' = RunOk /\ out' = cwd \o <<NL>>)
       /\ ~CdSucceeded(k, rres') => cwd' = cwd
       /\ (CdSucceeded(k, rres') /\ AbsoluteTarget(command'.args)) =>
             handle_pwd(<<PWD>>, cwd').out = command'.args[2] \o <<NL>>]_vars

\* C33 amended: as above, but a successful `cd X` with an absolute X leaves
\* the directory X names, which pwd prints in canonical form: as X itself
\* when X is written canonically, without the trailing slash otherwise.
C33_PwdPrintsLastCd ==
    [][LET k == command'.type_.kind IN
       /\ (k = "Pwd" /\ cwd # GONE) =>
             (rres' = RunOk /\ out' = cwd \o <<NL>>)
       /\ ~CdSucceeded(k, rres') => cwd' = cwd
       /\ (CdSucceeded(k, rres') /\ AbsoluteTarget(command'.args)) =>
             LET X == command'.args[2]
                 printed == handle_pwd(<<PWD>>, cwd') IN
             /\ cwd' \in Directories
             /\ printed.res = RunOk
             /\ printed.out = cwd' \o <<NL>>
             /\ X \in Directories => cwd' = X
             /\ X = DIR1 \o <<SLASH>> => cwd' = DIR1]_vars

\* `cd /d/` has succeeded and pwd would print /d
C33_Witness ==
    /\ Ran("Cd")
    /\ rres.ok
    /\ command.args = <<CD, DIR1 \o <<SLASH>>>>
    /\ cwd = DIR1
    /\ handle_pwd(<<PWD>>, cwd).out = DIR1 \o <<NL>>

\* C34: a step changes the working directory only if it is a run of cd that
\* returns Ok (Command::new, which tokenizes and classifies, and the runs of
\* echo, pwd, type and exit never do); cd that fails leaves every directory
\* it is run from; a run of exit writes nothing and returns Ok.
C34_OnlySuccessfulCdMoves ==
    [][/\ cwd' # cwd => (arm = "none" /\ arm' = "Cd" /\ rres'.ok)
       /\ (arm = "none" /\ arm' = "Cd") =>
             \A d \in Directories \cup {GONE} :
                LET r == handle_cd(command.args, d, home) IN
                ~r.res.ok => r.cwd = d
       /\ (arm = "none" /\ arm' = "Exit") =>
             (out' = <<>> /\ rres' = RunOk /\ cwd' = cwd)]_vars

\* `cd ls` has failed and the working directory is still the initial one
C34_Witness ==
    /\ arm = "Cd"
    /\ command.args = <<CD, LS>>
    /\ rres # NoRun
    /\ ~rres.ok
    /\ cwd = ROOT

\* C35: a run of echo with nothing after the name writes nothing and
\* returns Ok.
C35_EchoNoArgumentSilent ==
    (Ran("Echo") /\ Len(command.args) = 1) => (out = <<>> /\ rres = RunOk)

C35_Witness ==
    /\ Ran("Echo")
    /\ command.args = <<ECHO>>
    /\ out = <<>>
    /\ rres.ok

\* C36: `type X` returns Ok exactly when the classifier, given the single
\* token X, returns a Command; when it returns one of the Executable kind,
\* type prints "X is " and the path that kind carries.
C36_TypeAgreesWithClassifier ==
    (Ran("Type") /\ Len(command.args) >= 2) =>
        LET X == command.args[2]
            c == classify(from_str(X), <<X>>, path_env, fs) IN
        /\ rres.ok <=> c.ok
        /\ (c.ok /\ c.type_.kind = "Executable") =>
              out = X \o <<SP, "is", SP>> \o c.type_.path \o <<NL>>

====
